---- MODULE Spec2Model ----
(***************************************************************************)
(* MacOSWallpaperSlideshow.py as a state machine.                          *)
(*                                                                         *)
(* Strings (file names, paths, the -r argument, the AppleScript image      *)
(* list) are sequences of one-character strings, so that split, int,       *)
(* lower, endswith, os.path.join, os.path.basename and the f-string        *)
(* formatting are computed character by character as the code does.        *)
(*                                                                         *)
(* A run of main() is a process with a program counter; the file system    *)
(* is shared by all runs.  SIGINT may be delivered between any two steps   *)
(* of a run once its handler is installed.                                 *)
(***************************************************************************)
EXTENDS Integers, Sequences, FiniteSets, TLC

VARIABLES args, run, fs

vars == <<args, run, fs>>

(***************************************************************************)
(* Bounds of the model.                                                    *)
(***************************************************************************)
\* largest number of entries in a source directory
MaxFiles == 3
\* longest -r argument enumerated by InitParse
MaxResLen == 4

Runs == {1, 2}

(***************************************************************************)
(* Characters and string helpers.                                          *)
(***************************************************************************)
Digits == <<"0", "1", "2", "3", "4", "5", "6", "7", "8", "9">>

IsDigit(c) == \E i \in 1..10 : Digits[i] = c

DigitVal(c) == (CHOOSE i \in 1..10 : Digits[i] = c) - 1

UpperCase == <<"A", "B", "C", "D", "E", "F", "G", "H", "I", "J", "K", "L", "M",
               "N", "O", "P", "Q", "R", "S", "T", "U", "V", "W", "X", "Y", "Z">>

LowerCase == <<"a", "b", "c", "d", "e", "f", "g", "h", "i", "j", "k", "l", "m",
               "n", "o", "p", "q", "r", "s", "t", "u", "v", "w", "x", "y", "z">>

\* str.lower() on one character
LowerChar(c) ==
    IF \E i \in 1..26 : UpperCase[i] = c
    THEN LowerCase[CHOOSE i \in 1..26 : UpperCase[i] = c]
    ELSE c

\* str.lower()
Lower(s) == [i \in 1..Len(s) |-> LowerChar(s[i])]

\* str.endswith(suffix)
EndsWith(s, suffix) ==
    /\ Len(suffix) <= Len(s)
    /\ SubSeq(s, Len(s) - Len(suffix) + 1, Len(s)) = suffix

\* str.startswith(prefix)
StartsWith(s, prefix) ==
    /\ Len(prefix) <= Len(s)
    /\ SubSeq(s, 1, Len(prefix)) = prefix

\* `sub in s` for strings
Contains(s, sub) ==
    \E i \in 1..(Len(s) - Len(sub) + 1) : SubSeq(s, i, i + Len(sub) - 1) = sub

\* positions of character c in s
Positions(s, c) == {i \in 1..Len(s) : s[i] = c}

Max(S) == CHOOSE m \in S : \A k \in S : k <= m

Min(S) == CHOOSE m \in S : \A k \in S : m <= k

\* str.split(sep) for a one-character separator: always at least one part
RECURSIVE Split(_, _)
Split(s, sep) ==
    IF Positions(s, sep) = {}
    THEN <<s>>
    ELSE LET i == Min(Positions(s, sep))
         IN  <<SubSeq(s, 1, i - 1)>> \o Split(SubSeq(s, i + 1, Len(s)), sep)

\* the value of a string of decimal digits
RECURSIVE DigitsValue(_)
DigitsValue(s) ==
    IF s = <<>> THEN 0
    ELSE 10 * DigitsValue(SubSeq(s, 1, Len(s) - 1)) + DigitVal(s[Len(s)])

AllDigits(s) == s # <<>> /\ \A i \in 1..Len(s) : IsDigit(s[i])

\* int(s) succeeds: an optional sign followed by at least one digit
IsInt(s) ==
    \/ AllDigits(s)
    \/ /\ s # <<>>
       /\ s[1] \in {"-", "+"}
       /\ AllDigits(Tail(s))

\* int(s) for a string int() accepts
IntOf(s) ==
    IF s[1] = "-" THEN 0 - DigitsValue(Tail(s))
    ELSE IF s[1] = "+" THEN DigitsValue(Tail(s))
    ELSE DigitsValue(s)

\* the permutations of a finite set, as sequences
Perms(S) ==
    {s \in [1..Cardinality(S) -> S] :
        \A i, j \in 1..Cardinality(S) : s[i] = s[j] => i = j}

(***************************************************************************)
(* Paths.                                                                  *)
(***************************************************************************)
\* os.path.join(a, b)
PathJoin(a, b) ==
    IF StartsWith(b, <<"/">>) THEN b
    ELSE IF a = <<>> \/ EndsWith(a, <<"/">>) THEN a \o b
    ELSE a \o <<"/">> \o b

\* os.path.basename(p)
Basename(p) ==
    IF Positions(p, "/") = {} THEN p
    ELSE SubSeq(p, Max(Positions(p, "/")) + 1, Len(p))

\* the directory part of a path (what os.listdir is asked about)
Dirname(p) ==
    IF Positions(p, "/") = {} THEN <<>>
    ELSE SubSeq(p, 1, Max(Positions(p, "/")) - 1)

\* '/tmp'
TmpDir == <<"/", "t", "m", "p">>

\* 'centered_'
CenteredPrefix == <<"c", "e", "n", "t", "e", "r", "e", "d", "_">>

\* os.path.join('/tmp', f'centered_{os.path.basename(image_path)}')
TmpFilename(image_path) == PathJoin(TmpDir, CenteredPrefix \o Basename(image_path))

\* the tuple of suffixes passed to endswith in main
SupportedExtensions ==
    { <<".", "j", "p", "g">>, <<".", "j", "p", "e", "g">>, <<".", "p", "n", "g">>,
      <<".", "g", "i", "f">>, <<".", "b", "m", "p">>, <<".", "t", "i", "f", "f">> }

\* the extension test without lower(): a case-sensitive match
IsSupportedCaseSensitive(filename) ==
    \E ext \in SupportedExtensions : EndsWith(filename, ext)

\* filename.lower().endswith(('.jpg', '.jpeg', '.png', '.gif', '.bmp', '.tiff'))
IsSupported(filename) ==
    \E ext \in SupportedExtensions : EndsWith(Lower(filename), ext)

(***************************************************************************)
(* Inputs: command lines, directory contents, display-facility outputs.    *)
(***************************************************************************)
\* source directories that exist, and one that does not
DirOne == <<"/", "d", "1">>

DirTwo == <<"/", "d", "2">>

DirMissing == <<"/", "n", "o">>

ExistingDirs == {DirOne, DirTwo}

\* a.jpg, b.PNG, c.txt, d.bmp, jpg: the file names a directory may hold
NamePool ==
    { <<"a", ".", "j", "p", "g">>, <<"b", ".", "P", "N", "G">>,
      <<"c", ".", "t", "x", "t">>, <<"d", ".", "b", "m", "p">>,
      <<"j", "p", "g">> }

\* a.jpg, b.PNG: the names used when two runs share the file system
SmallPool == { <<"a", ".", "j", "p", "g">>, <<"b", ".", "P", "N", "G">> }

\* args.resolution when -r is not given (None)
NoResolution == <<"None">>

\* -t values: another value and the argparse default
TransitionTimes == {5, 10}

\* -r values of the main specification: absent, well-formed, malformed
ResolutionArgs == {NoResolution, <<"2", "x", "1">>, <<"1", "x">>}

\* characters of the -r values enumerated by InitParse
ResAlphabet == {"0", "1", "9", "-", "x", "a"}

StringsUpTo(n) == UNION {[1..k -> ResAlphabet] : k \in 0..n}

\* 'Resolution'
ResolutionWord == <<"R", "e", "s", "o", "l", "u", "t", "i", "o", "n">>

\* 'Resolution:'
ResolutionLabel == ResolutionWord \o <<":">>

\* outputs of `system_profiler SPDisplaysDataType`: a failing call, or the
\* lines of its output, each line already split on white space
DisplayOutputs ==
    { [failed |-> TRUE, lines |-> <<>>],
      [failed |-> FALSE, lines |-> <<>>],
      [failed |-> FALSE, lines |-> << <<ResolutionLabel, <<"1">>, <<"x">>, <<"1">> >> >>],
      [failed |-> FALSE, lines |-> << <<ResolutionLabel, <<"1">>, <<"x">> >> >>],
      [failed |-> FALSE, lines |-> << <<ResolutionLabel, <<"1">> >> >>],
      [failed |-> FALSE,
       lines |-> << << <<"U", "I">>, <<"a">> >>,
                    <<ResolutionLabel, <<"a">>, <<"x">>, <<"1">>, <<"R">> >> >>] }

\* the file a directory entry or a temporary path holds
SourceFile(p) == [kind |-> "source", by |-> 0, src |-> p, size |-> <<0, 0>>]

Composite(r, image_path, width, height) ==
    [kind |-> "composite", by |-> r, src |-> image_path, size |-> <<width, height>>]

\* a file system whose directory d holds exactly the names in S
DirContents(d, S) == {PathJoin(d, n) : n \in S}

FsOf(paths) == [p \in paths |-> SourceFile(p)]

\* no script built yet
NoScript == [images_str |-> <<>>, transition_time |-> 0]

InitialRun ==
    [pc |-> "install", handler |-> FALSE, resolution |-> <<>>,
     width |-> 0, height |-> 0, listing |-> <<>>, idx |-> 1, images |-> <<>>,
     script |-> NoScript, invoked |-> <<>>, displayQueries |-> 0,
     listdirCalls |-> 0, cleanUpCalls |-> 0, cleanIdx |-> 1,
     removeAttempts |-> <<>>, removeFailed |-> {}, created |-> {},
     failedCompose |-> {}, messages |-> {}, pending |-> 0, exitCode |-> -1,
     interruptedAt |-> "none"]

\* the command line of a run that never starts
IdleArgs ==
    [directory |-> DirMissing, transition_time |-> 10,
     resolution |-> NoResolution, original_size |-> FALSE]

(***************************************************************************)
(* Initial states.  parse_arguments is the choice of args.                 *)
(***************************************************************************)
\* one run; directory /d1 holds up to MaxFiles of the names in NamePool
Init ==
    /\ \E d \in {DirOne, DirMissing}, t \in TransitionTimes,
          res \in ResolutionArgs, o \in BOOLEAN :
          args = [r \in Runs |->
                    IF r = 1
                    THEN [directory |-> d, transition_time |-> t,
                          resolution |-> res, original_size |-> o]
                    ELSE IdleArgs]
    /\ run = [r \in Runs |-> InitialRun]
    /\ \E S \in SUBSET NamePool :
          /\ Cardinality(S) <= MaxFiles
          /\ fs = FsOf(DirContents(DirOne, S))

\* one run; every -r string of at most MaxResLen characters over ResAlphabet
InitParse ==
    /\ \E res \in StringsUpTo(MaxResLen) \cup {NoResolution}, o \in BOOLEAN :
          args = [r \in Runs |->
                    IF r = 1
                    THEN [directory |-> DirOne, transition_time |-> 10,
                          resolution |-> res, original_size |-> o]
                    ELSE IdleArgs]
    /\ run = [r \in Runs |-> InitialRun]
    /\ fs = FsOf(DirContents(DirOne, SmallPool))

\* two runs at once, run 1 on /d1 and run 2 on /d2
InitConc ==
    /\ \E o1, o2 \in BOOLEAN :
          args = [r \in Runs |->
                    [directory |-> IF r = 1 THEN DirOne ELSE DirTwo,
                     transition_time |-> 10,
                     resolution |-> <<"2", "x", "1">>,
                     original_size |-> IF r = 1 THEN o1 ELSE o2]]
    /\ run = [r \in Runs |-> InitialRun]
    /\ \E S1, S2 \in (SUBSET SmallPool) \ {{}} :
          fs = FsOf(DirContents(DirOne, S1) \cup DirContents(DirTwo, S2))

(***************************************************************************)
(* Pure functions of the program.                                          *)
(***************************************************************************)
\* the loop of get_display_resolution over output.splitlines(): the first
\* line containing "Resolution" with at least 3 parts decides; parts[1] and
\* parts[3] (0-based) are read, and a missing parts[3] is an IndexError
RECURSIVE ScanDisplayLines(_)
ScanDisplayLines(lines) ==
    IF lines = <<>>
    THEN [status |-> "notfound", resolution |-> <<>>]
    ELSE LET parts == Head(lines)
         IN  IF /\ \E i \in 1..Len(parts) : Contains(parts[i], ResolutionWord)
                /\ Len(parts) >= 3
             THEN IF Len(parts) >= 4
                  THEN [status |-> "ok",
                        resolution |-> parts[2] \o <<"x">> \o parts[4]]
                  ELSE [status |-> "error", resolution |-> <<>>]
             ELSE ScanDisplayLines(Tail(lines))

\* get_display_resolution() on one output of the display facility
GetDisplayResolution(output) ==
    IF output.failed
    THEN [status |-> "error", resolution |-> <<>>]
    ELSE ScanDisplayLines(output.lines)

\* `args.resolution or ...`: None and the empty string are falsy
IsTruthy(s) == s # NoResolution /\ s # <<>>

\* width, height = map(int, resolution.split('x')) does not raise ValueError:
\* exactly two parts, each accepted by int()
ResolutionParses(resolution) ==
    LET parts == Split(resolution, "x")
    IN  /\ Len(parts) = 2
        /\ IsInt(parts[1])
        /\ IsInt(parts[2])

\* the pair assigned to width, height
ParsedResolution(resolution) ==
    LET parts == Split(resolution, "x")
    IN  <<IntOf(parts[1]), IntOf(parts[2])>>

\* ", ".join(...) over already quoted strings
RECURSIVE JoinComma(_)
JoinComma(strs) ==
    IF strs = <<>> THEN <<>>
    ELSE IF Len(strs) = 1 THEN strs[1]
    ELSE strs[1] \o <<",", " ">> \o JoinComma(Tail(strs))

\* f'"{img}"'
Quoted(img) == <<"\"">> \o img \o <<"\"">>

\* setup_slideshow: the two values interpolated into the AppleScript text
SetupSlideshow(images, transition_time) ==
    [images_str |-> JoinComma([i \in 1..Len(images) |-> Quoted(images[i])]),
     transition_time |-> transition_time]

(***************************************************************************)
(* File system operations.                                                 *)
(***************************************************************************)
Exists(p) == p \in DOMAIN fs

\* the file system after writing content c at path p
Written(p, c) == [q \in DOMAIN fs \cup {p} |-> IF q = p THEN c ELSE fs[q]]

\* the file system after unlinking p
Removed(p) == [q \in DOMAIN fs \ {p} |-> fs[q]]

\* the names os.listdir(d) yields, in some order
Entries(d) == {Basename(p) : p \in {q \in DOMAIN fs : Dirname(q) = d}}

\* os.path.isdir
IsDir(d) == d \in ExistingDirs \cup {TmpDir}

(***************************************************************************)
(* Steps of main().                                                        *)
(***************************************************************************)
Goto(r, rec) == run' = [run EXCEPT ![r] = rec]

\* sys.exit(code) outside the try block, or the end of the process
Exit(rec, code) == [rec EXCEPT !.pc = "exited", !.exitCode = code]

\* print(...) of one kind of diagnostic
Report(rec, kind) == [rec EXCEPT !.messages = @ \cup {kind}]

\* control enters the finally block: clean_up(images) is called
EnterFinally(rec, code) ==
    [rec EXCEPT !.pc = "clean_up", !.pending = code,
                !.cleanUpCalls = @ + 1, !.cleanIdx = 1]

\* line 98: signal.signal(signal.SIGINT, signal_handler)
InstallHandler(r) ==
    /\ run[r].pc = "install"
    /\ Goto(r, [run[r] EXCEPT !.pc = "resolve", !.handler = TRUE])
    /\ UNCHANGED <<args, fs>>

\* line 104: resolution = args.resolution or get_display_resolution()
Resolve(r) ==
    /\ run[r].pc = "resolve"
    /\ IF IsTruthy(args[r].resolution)
       THEN Goto(r, [run[r] EXCEPT !.pc = "parse_res",
                                   !.resolution = args[r].resolution])
       ELSE \E output \in DisplayOutputs :
               LET got == GetDisplayResolution(output)
                   asked == [run[r] EXCEPT !.displayQueries = @ + 1]
               IN  IF got.status = "ok"
                   THEN Goto(r, [asked EXCEPT !.pc = "parse_res",
                                              !.resolution = got.resolution])
                   ELSE Goto(r, Exit(Report(asked, "ResolutionDetectionFailed"), 1))
    /\ UNCHANGED <<args, fs>>

\* lines 105-109: parse the resolution or report and exit
ParseResolution(r) ==
    /\ run[r].pc = "parse_res"
    /\ IF ResolutionParses(run[r].resolution)
       THEN Goto(r, [run[r] EXCEPT
                       !.pc = "check_dir",
                       !.width = ParsedResolution(run[r].resolution)[1],
                       !.height = ParsedResolution(run[r].resolution)[2]])
       ELSE Goto(r, Exit(Report(run[r], "InvalidResolutionFormat"), 1))
    /\ UNCHANGED <<args, fs>>

\* lines 112-114: os.path.isdir(args.directory)
CheckDirectory(r) ==
    /\ run[r].pc = "check_dir"
    /\ IF IsDir(args[r].directory)
       THEN Goto(r, [run[r] EXCEPT !.pc = "listdir"])
       ELSE Goto(r, Exit(Report(run[r], "DirectoryNotFound"), 1))
    /\ UNCHANGED <<args, fs>>

\* lines 117-118: images = []; os.listdir(args.directory)
ListDirectory(r) ==
    /\ run[r].pc = "listdir"
    /\ \E listing \in Perms(Entries(args[r].directory)) :
          Goto(r, [run[r] EXCEPT !.pc = "loop", !.listing = listing,
                                 !.idx = 1, !.images = <<>>,
                                 !.listdirCalls = @ + 1])
    /\ UNCHANGED <<args, fs>>

\* create_centered_image letting the failure escape instead of returning None
CreateCenteredImageRaising(r, image_path, ok) ==
    IF ok /\ Exists(image_path)
    THEN /\ fs' = Written(TmpFilename(image_path),
                          Composite(r, image_path, run[r].width, run[r].height))
         /\ Goto(r, [run[r] EXCEPT
                       !.idx = @ + 1,
                       !.images = Append(@, TmpFilename(image_path)),
                       !.created = @ \cup {TmpFilename(image_path)}])
    ELSE /\ fs' = fs
         /\ Goto(r, Exit([Report(run[r], "ImageCompositionFailed") EXCEPT
                            !.failedCompose = @ \cup {image_path}], 1))

\* lines 37-54: create_centered_image on image_path.  Opening, pasting or
\* saving may fail (ok = FALSE); a source file that is gone always fails.
CreateCenteredImage(r, image_path, ok) ==
    IF ok /\ Exists(image_path)
    THEN /\ fs' = Written(TmpFilename(image_path),
                          Composite(r, image_path, run[r].width, run[r].height))
         /\ Goto(r, [run[r] EXCEPT
                       !.idx = @ + 1,
                       !.images = Append(@, TmpFilename(image_path)),
                       !.created = @ \cup {TmpFilename(image_path)}])
    ELSE /\ fs' = fs
         /\ Goto(r, [Report(run[r], "ImageCompositionFailed") EXCEPT
                       !.idx = @ + 1,
                       !.failedCompose = @ \cup {image_path}])

\* lines 118-127: one iteration of the loop over the listing
ProcessEntry(r) ==
    /\ run[r].pc = "loop"
    /\ run[r].idx <= Len(run[r].listing)
    /\ LET filename == run[r].listing[run[r].idx]
           image_path == PathJoin(args[r].directory, filename)
       IN  IF IsSupported(filename)
           THEN IF args[r].original_size
                THEN \E ok \in BOOLEAN : CreateCenteredImage(r, image_path, ok)
                ELSE /\ Goto(r, [run[r] EXCEPT !.idx = @ + 1,
                                               !.images = Append(@, image_path)])
                     /\ fs' = fs
           ELSE /\ Goto(r, [run[r] EXCEPT !.idx = @ + 1])
                /\ fs' = fs
    /\ UNCHANGED args

\* the end of the loop without the `if not images` check
CheckImagesUnchecked(r) ==
    /\ run[r].pc = "loop"
    /\ run[r].idx > Len(run[r].listing)
    /\ Goto(r, [run[r] EXCEPT
                  !.pc = "execute",
                  !.script = SetupSlideshow(run[r].images,
                                            args[r].transition_time)])
    /\ UNCHANGED <<args, fs>>

\* lines 129-134: the loop is over; no images is fatal, else build the script
CheckImages(r) ==
    /\ run[r].pc = "loop"
    /\ run[r].idx > Len(run[r].listing)
    /\ IF run[r].images = <<>>
       THEN Goto(r, Exit(Report(run[r], "NoImagesFound"), 1))
       ELSE Goto(r, [run[r] EXCEPT
                       !.pc = "execute",
                       !.script = SetupSlideshow(run[r].images,
                                                 args[r].transition_time)])
    /\ UNCHANGED <<args, fs>>

\* lines 137-138: control enters the try block
EnterTry(r) ==
    /\ run[r].pc = "execute"
    /\ Goto(r, [run[r] EXCEPT !.pc = "try"])
    /\ UNCHANGED <<args, fs>>

\* line 78: subprocess.run(['osascript', '-e', slideshow_script]) starts
InvokeInterpreter(r) ==
    /\ run[r].pc = "try"
    /\ Goto(r, [run[r] EXCEPT !.pc = "waiting",
                              !.invoked = Append(@, run[r].script)])
    /\ UNCHANGED <<args, fs>>

\* execute_slideshow leaving the process on an error status without
\* unwinding through the finally block
InterpreterReturnsSkippingFinally(r) ==
    /\ run[r].pc = "waiting"
    /\ \E ok \in BOOLEAN :
          IF ok
          THEN Goto(r, EnterFinally(run[r], 0))
          ELSE Goto(r, Exit(Report(run[r], "AutomationExecutionFailed"), 1))
    /\ UNCHANGED <<args, fs>>

\* lines 78-81 and 140-142: osascript ends; an error status is reported and
\* raises SystemExit(1); either way the finally block is entered
InterpreterReturns(r) ==
    /\ run[r].pc = "waiting"
    /\ \E ok \in BOOLEAN :
          IF ok
          THEN Goto(r, EnterFinally(run[r], 0))
          ELSE Goto(r, EnterFinally(Report(run[r], "AutomationExecutionFailed"), 1))
    /\ UNCHANGED <<args, fs>>

\* clean_up without the try/except: the first OSError ends the process
CleanUpStepRaising(r) ==
    /\ run[r].pc = "clean_up"
    /\ run[r].cleanIdx <= Len(run[r].images)
    /\ LET img == run[r].images[run[r].cleanIdx]
           tried == [run[r] EXCEPT !.cleanIdx = @ + 1,
                                   !.removeAttempts = Append(@, img)]
       IN  \E removed \in BOOLEAN :
              IF removed /\ Exists(img)
              THEN /\ fs' = Removed(img)
                   /\ Goto(r, tried)
              ELSE /\ fs' = fs
                   /\ Goto(r, Exit([tried EXCEPT !.removeFailed = @ \cup {img}], 1))
    /\ UNCHANGED args

\* lines 85-89: one iteration of clean_up's loop.  os.remove raises OSError
\* when the file is gone, and may raise it for a file that is there.
CleanUpStep(r) ==
    /\ run[r].pc = "clean_up"
    /\ run[r].cleanIdx <= Len(run[r].images)
    /\ LET img == run[r].images[run[r].cleanIdx]
           tried == [run[r] EXCEPT !.cleanIdx = @ + 1,
                                   !.removeAttempts = Append(@, img)]
       IN  \E removed \in BOOLEAN :
              IF removed /\ Exists(img)
              THEN /\ fs' = Removed(img)
                   /\ Goto(r, tried)
              ELSE /\ fs' = fs
                   /\ Goto(r, [Report(tried, "TempFileDeletionFailed") EXCEPT
                                 !.removeFailed = @ \cup {img}])
    /\ UNCHANGED args

\* clean_up returns; the exception in flight, if any, ends the process
CleanUpReturns(r) ==
    /\ run[r].pc = "clean_up"
    /\ run[r].cleanIdx > Len(run[r].images)
    /\ Goto(r, Exit(run[r], run[r].pending))
    /\ UNCHANGED <<args, fs>>

\* the positions inside the try block of main
InTry(pc) == pc \in {"try", "waiting"}

\* lines 91-94: SIGINT is delivered; signal_handler prints and raises
\* SystemExit(0) where main stands.  Inside the try block the finally block
\* runs; anywhere else, clean_up included, the process exits at once.
Interrupt(r) ==
    /\ run[r].handler
    /\ run[r].pc # "exited"
    /\ LET told == [Report(run[r], "Interrupted") EXCEPT
                      !.interruptedAt = run[r].pc]
       IN  IF InTry(run[r].pc)
           THEN Goto(r, EnterFinally(told, 0))
           ELSE Goto(r, Exit(told, 0))
    /\ UNCHANGED <<args, fs>>

\* one step of run r
Step(r) ==
    \/ InstallHandler(r)
    \/ Resolve(r)
    \/ ParseResolution(r)
    \/ CheckDirectory(r)
    \/ ListDirectory(r)
    \/ ProcessEntry(r)
    \/ CheckImages(r)
    \/ EnterTry(r)
    \/ InvokeInterpreter(r)
    \/ InterpreterReturns(r)
    \/ CleanUpStep(r)
    \/ CleanUpReturns(r)
    \/ Interrupt(r)

Next == Step(1)

NextConc == \E r \in Runs : Step(r)

\* one run of the program
Spec == Init /\ [][Next]_vars

\* one run, over every short -r argument
SpecParse == InitParse /\ [][Next]_vars

\* two runs sharing /tmp
SpecConc == InitConc /\ [][NextConc]_vars

(***************************************************************************)
(* Vocabulary of the properties.                                           *)
(***************************************************************************)
Exited(r) == run[r].pc = "exited"

\* no SIGINT was delivered to run r
NotInterrupted(r) == run[r].interruptedAt = "none"

\* the loop over the listing has processed every entry
SelectionDone(r) == run[r].listdirCalls = 1 /\ run[r].idx > Len(run[r].listing)

\* the entries of the listing the loop has dealt with so far
Processed(r) == SubSeq(run[r].listing, 1, run[r].idx - 1)

\* the diagnostics of the exits that happen before any image is handled
ValidationErrors ==
    {"InvalidResolutionFormat", "ResolutionDetectionFailed",
     "DirectoryNotFound", "NoImagesFound"}

Range(s) == {s[i] : i \in 1..Len(s)}

\* the extensions the image selector is specified to accept
ClaimedExtensions ==
    { <<".", "j", "p", "g">>, <<".", "j", "p", "e", "g">>, <<".", "p", "n", "g">>,
      <<".", "g", "i", "f">>, <<".", "b", "m", "p">>, <<".", "t", "i", "f", "f">> }

\* the name ends, case-insensitively, in one of the specified extensions
EndsInImageExtension(name) ==
    \E ext \in ClaimedExtensions :
        /\ Len(name) >= Len(ext)
        /\ Lower(SubSeq(name, Len(name) - Len(ext) + 1, Len(name))) = ext

\* the paths an AppleScript list body {"p1", "p2", ...} names, in order
RECURSIVE ParseImageList(_)
ParseImageList(s) ==
    IF s = <<>> THEN <<>>
    ELSE IF s[1] # "\"" \/ Positions(Tail(s), "\"") = {}
    THEN << <<"malformed">> >>
    ELSE LET j == Min(Positions(Tail(s), "\"")) + 1
             item == SubSeq(s, 2, j - 1)
             rest == SubSeq(s, j + 1, Len(s))
         IN  IF rest = <<>> THEN <<item>>
             ELSE IF StartsWith(rest, <<",", " ">>) /\ Len(rest) > 2
             THEN <<item>> \o ParseImageList(SubSeq(rest, 3, Len(rest)))
             ELSE << <<"malformed">> >>

\* "<W>x<H>" with W and H positive integers in decimal
IsPositiveDecimal(s) == AllDigits(s) /\ DigitsValue(s) > 0

WellFormedResolution(s) ==
    /\ Cardinality(Positions(s, "x")) = 1
    /\ LET i == Min(Positions(s, "x"))
       IN  /\ IsPositiveDecimal(SubSeq(s, 1, i - 1))
           /\ IsPositiveDecimal(SubSeq(s, i + 1, Len(s)))

WellFormedPair(s) ==
    LET i == Min(Positions(s, "x"))
    IN  <<DigitsValue(SubSeq(s, 1, i - 1)), DigitsValue(SubSeq(s, i + 1, Len(s)))>>

(***************************************************************************)
(* C1.  A run that ends by normal completion of the interpreter, by a      *)
(* fatal automation error or by an interrupt delivered after the handler   *)
(* is installed has invoked clean_up exactly once when the process exits.  *)
(* (The runs that end in a validation error are not among the three.)      *)
(***************************************************************************)
C1_CleanUpExactlyOnce ==
    \A r \in Runs :
        (Exited(r) /\ run[r].messages \cap ValidationErrors = {})
            => run[r].cleanUpCalls = 1

(***************************************************************************)
(* C2.  Every path clean_up passes to os.remove is a temporary composite   *)
(* that create_centered_image wrote in this run; no path of the source     *)
(* directory is ever removed, with or without --original-size.             *)
(***************************************************************************)
C2_RemovesOnlyComposites ==
    \A r \in Runs :
        \A i \in 1..Len(run[r].removeAttempts) :
            /\ run[r].removeAttempts[i] \in run[r].created
            /\ Dirname(run[r].removeAttempts[i]) # args[r].directory

(***************************************************************************)
(* C3.  When the process has exited, deletion has been attempted for every *)
(* temporary file create_centered_image wrote in the run, whichever way    *)
(* the run ended.                                                          *)
(***************************************************************************)
C3_TemporariesReleased ==
    \A r \in Runs :
        Exited(r) => run[r].created \subseteq Range(run[r].removeAttempts)

(***************************************************************************)
(* C4.  With --original-size, every path in a run's working image list     *)
(* exists with the content this run wrote, from the moment it is appended  *)
(* until this run's clean_up reaches it, also when another run executes    *)
(* at the same time.                                                       *)
(***************************************************************************)
C4_WorkingListIntact ==
    \A r \in Runs :
        (args[r].original_size /\ ~Exited(r)) =>
            \A i \in 1..Len(run[r].images) :
                (run[r].pc = "clean_up" => i >= run[r].cleanIdx) =>
                    /\ Exists(run[r].images[i])
                    /\ fs[run[r].images[i]].kind = "composite"
                    /\ fs[run[r].images[i]].by = r

(***************************************************************************)
(* C5.  A supplied -r string "<W>x<H>" with W, H positive integers parses  *)
(* to exactly (W, H); for any other supplied string the display facility   *)
(* is never queried, the directory never listed, the interpreter never     *)
(* invoked, and the run, unless interrupted, goes from parsing to exit     *)
(* status 1 with InvalidResolutionFormat reported.                         *)
(***************************************************************************)
C5_ResolutionParsing ==
    LET s == args[1].resolution
        parsed == run[1].pc \notin {"install", "resolve", "parse_res"}
    IN  s # NoResolution =>
            IF WellFormedResolution(s)
            THEN (parsed /\ NotInterrupted(1)) =>
                     /\ "InvalidResolutionFormat" \notin run[1].messages
                     /\ <<run[1].width, run[1].height>> = WellFormedPair(s)
            ELSE /\ run[1].displayQueries = 0
                 /\ run[1].listdirCalls = 0
                 /\ run[1].invoked = <<>>
                 /\ (parsed /\ NotInterrupted(1)) =>
                        /\ Exited(1)
                        /\ run[1].exitCode = 1
                        /\ "InvalidResolutionFormat" \in run[1].messages

(***************************************************************************)
(* C6.  When selection ends with an empty working image list, the          *)
(* interpreter is never invoked and no script is built, and the run        *)
(* (unless a SIGINT ends it first) reports NoImagesFound and exits with    *)
(* status 1.                                                               *)
(***************************************************************************)
C6_NoImagesFound ==
    \A r \in Runs :
        (SelectionDone(r) /\ run[r].images = <<>>) =>
            /\ run[r].invoked = <<>>
            /\ run[r].script = NoScript
            /\ run[r].cleanUpCalls = 0
            /\ run[r].pc \in {"loop", "exited"}
            /\ (Exited(r) /\ NotInterrupted(r)) =>
                   /\ run[r].exitCode = 1
                   /\ "NoImagesFound" \in run[r].messages

\* every composition failed under --original-size and the run ended
C6_Witness ==
    /\ Exited(1) /\ NotInterrupted(1)
    /\ args[1].original_size
    /\ Cardinality(run[1].failedCompose) >= 2
    /\ run[1].images = <<>>
    /\ "NoImagesFound" \in run[1].messages

(***************************************************************************)
(* C7.  Without --original-size the working image list is, at every        *)
(* moment, the original paths of the processed entries whose name ends     *)
(* case-insensitively in a claimed extension, in listing order; the        *)
(* interpreter is invoked at most once, with a script naming exactly the   *)
(* working list in order and the delay args.transition_time; and a run     *)
(* with images that is not interrupted has invoked it exactly once.        *)
(***************************************************************************)
C7_PassThroughSelection ==
    \A r \in Runs :
        ~args[r].original_size =>
            LET kept == SelectSeq(Processed(r), EndsInImageExtension)
            IN  /\ run[r].images =
                       [i \in 1..Len(kept) |-> PathJoin(args[r].directory, kept[i])]
                /\ Len(run[r].invoked) <= 1
                /\ \A k \in 1..Len(run[r].invoked) :
                       /\ SelectionDone(r)
                       /\ ParseImageList(run[r].invoked[k].images_str) = run[r].images
                       /\ run[r].invoked[k].transition_time = args[r].transition_time
                /\ (Exited(r) /\ NotInterrupted(r) /\ run[r].images # <<>>)
                       => Len(run[r].invoked) = 1

\* a directory of three entries, two of them images, one with an upper-case
\* extension, run to the end without --original-size
C7_Witness ==
    /\ Exited(1) /\ NotInterrupted(1)
    /\ ~args[1].original_size
    /\ args[1].transition_time = 5
    /\ Len(run[1].listing) = 3
    /\ Len(run[1].images) = 2
    /\ \E i \in 1..2 : EndsWith(run[1].images[i], <<".", "P", "N", "G">>)
    /\ Len(run[1].invoked) = 1

(***************************************************************************)
(* C8.  Once the interpreter has returned an error status, the error is    *)
(* reported, the interpreter has been invoked exactly once, clean_up has   *)
(* been called exactly once, and the run (unless a SIGINT ends it first)   *)
(* exits with status 1 only after clean_up went over the whole working     *)
(* image list.                                                             *)
(***************************************************************************)
C8_AutomationFailure ==
    \A r \in Runs :
        /\ Len(run[r].invoked) <= 1
        /\ "AutomationExecutionFailed" \in run[r].messages =>
               /\ Len(run[r].invoked) = 1
               /\ run[r].cleanUpCalls = 1
               /\ run[r].pc \in {"clean_up", "exited"}
               /\ (Exited(r) /\ NotInterrupted(r)) =>
                      /\ run[r].exitCode = 1
                      /\ run[r].removeAttempts = run[r].images

\* the interpreter failed and the run ended after cleaning two images
C8_Witness ==
    /\ Exited(1) /\ NotInterrupted(1)
    /\ "AutomationExecutionFailed" \in run[1].messages
    /\ run[1].exitCode = 1
    /\ Len(run[1].removeAttempts) >= 2

(***************************************************************************)
(* C9.  With --original-size the working image list is, at every moment,   *)
(* the composites of the processed supported entries whose composition     *)
(* did not fail, in listing order; a failed composition does not end the   *)
(* run: a run that exits without a SIGINT has processed every entry.       *)
(***************************************************************************)
C9_CompositionFailureSkipped ==
    \A r \in Runs :
        args[r].original_size =>
            LET Composed(name) ==
                    /\ EndsInImageExtension(name)
                    /\ PathJoin(args[r].directory, name) \notin run[r].failedCompose
                kept == SelectSeq(Processed(r), Composed)
            IN  /\ run[r].images =
                       [i \in 1..Len(kept) |->
                           TmpFilename(PathJoin(args[r].directory, kept[i]))]
                /\ (Exited(r) /\ NotInterrupted(r) /\ run[r].listdirCalls = 1)
                       => SelectionDone(r)

\* a composition failed on the first entry, a later one succeeded, and the
\* run went on to invoke the interpreter
C9_Witness ==
    /\ Exited(1) /\ NotInterrupted(1)
    /\ args[1].original_size
    /\ Len(run[1].listing) >= 2
    /\ PathJoin(args[1].directory, run[1].listing[1]) \in run[1].failedCompose
    /\ run[1].images # <<>>
    /\ Len(run[1].invoked) = 1

(***************************************************************************)
(* C10.  clean_up attempts each path of the working image list exactly     *)
(* once and in order, whichever deletions fail; when it has run without a  *)
(* SIGINT cutting it short, the attempts are the whole list and the exit   *)
(* status is the one the run had before: 1 after an automation error,      *)
(* 0 otherwise.                                                            *)
(***************************************************************************)
C10_CleanUpTotal ==
    \A r \in Runs :
        /\ run[r].pc = "clean_up" =>
               run[r].removeAttempts = SubSeq(run[r].images, 1, run[r].cleanIdx - 1)
        /\ run[r].removeFailed \subseteq Range(run[r].removeAttempts)
        /\ (Exited(r) /\ run[r].cleanUpCalls = 1
                /\ run[r].interruptedAt # "clean_up") =>
               /\ run[r].removeAttempts = run[r].images
               /\ run[r].exitCode =
                      IF "AutomationExecutionFailed" \in run[r].messages
                      THEN 1 ELSE 0

\* the first deletion failed, the later ones were still attempted, and the
\* run that completed normally exits 0
C10_Witness ==
    /\ Exited(1) /\ NotInterrupted(1)
    /\ Len(run[1].images) >= 2
    /\ run[1].images[1] \in run[1].removeFailed
    /\ run[1].removeAttempts = run[1].images
    /\ run[1].images[2] \notin run[1].removeFailed
    /\ run[1].exitCode = 0

====
